---- MODULE Spec2Model ----
(***************************************************************************)
(* llrs: a stack-based bytecode virtual machine and its assembler          *)
(* (src/src/main.rs).  The assembler turns mnemonic lines into bytes; the  *)
(* VM fetches, decodes and executes them on a stack of u8 values.          *)
(*                                                                         *)
(* A panic (expect on None, index out of bounds, panic!) ends the call     *)
(* that raised it.  The VM record keeps, next to the three fields of the   *)
(* struct, the panic that stopped it and the values it printed.            *)
(***************************************************************************)
EXTENDS Integers, Sequences, FiniteSets, TLC

VARIABLES
  pc,        \* where main is: "assemble", "run" or "asm_panic"
  picked,    \* the line samples the source text was built from (history)
  lines,     \* the lines of the source that assemble has not consumed yet
  bytecode,  \* assemble's output buffer
  vm,        \* the VM: stack, ip, program; plus panic and stdout
  vm2,       \* a second VM instance, of its own fields
  hist       \* the VM as it was before each executed instruction (history)

vars == <<pc, picked, lines, bytecode, vm, vm2, hist>>

(***************************************************************************)
(* Bounds of the model                                                     *)
(***************************************************************************)
MaxDepth == 3
MaxTail == 2
MaxLines == 2
MaxBelow == 1
MaxProg == 4

(***************************************************************************)
(* u8                                                                      *)
(***************************************************************************)
U8Max == 255
U8Mod == U8Max + 1
Byte == 0..U8Max

\* mutants: arithmetic that saturates instead of wrapping
saturating_add(a, b) == IF a + b > U8Max THEN U8Max ELSE a + b
saturating_sub(a, b) == IF a >= b THEN a - b ELSE 0

wrapping_add(a, b) == (a + b) % U8Mod
wrapping_sub(a, b) == IF a >= b THEN a - b ELSE U8Mod - (b - a)
wrapping_mul(a, b) == (a * b) % U8Mod

(***************************************************************************)
(* Vec<u8>::pop, last, push                                                *)
(***************************************************************************)
Front(s) == SubSeq(s, 1, Len(s) - 1)

\* Vec::pop: None on an empty vector, else the last element, removed
pop(m) ==
  IF m.stack = <<>>
    THEN [m |-> m, some |-> FALSE, v |-> 0]
    ELSE [m |-> [m EXCEPT !.stack = Front(@)], some |-> TRUE,
          v |-> m.stack[Len(m.stack)]]

\* slice::last: None on an empty vector, else the last element, kept
last(m) ==
  IF m.stack = <<>>
    THEN [some |-> FALSE, v |-> 0]
    ELSE [some |-> TRUE, v |-> m.stack[Len(m.stack)]]

stack_push(m, value) == [m EXCEPT !.stack = Append(@, value)]

\* a panic stops the VM where it is: whatever was done before it stays done
Panic(m, msg) == [m EXCEPT !.panic = msg]

println(m, value) == [m EXCEPT !.stdout = Append(@, value)]

(***************************************************************************)
(* VM                                                                      *)
(***************************************************************************)
new(program) ==
  [stack |-> <<>>, ip |-> 0, program |-> program,
   panic |-> "none", stdout |-> <<>>]

\* program[ip] is program[ip + 1] here: Rust indexes from 0
\* mutant: Push reads its operand and leaves ip on it
push_no_advance(m) ==
  IF m.ip >= Len(m.program)
    THEN Panic(m, "index out of bounds")
    ELSE LET value == m.program[m.ip + 1]
         IN  stack_push(m, value)

\* mutant: Push moves ip past the operand before it reads it
push_advance_first(m) ==
  LET m1 == [m EXCEPT !.ip = @ + 1]
  IN  IF m.ip >= Len(m.program)
        THEN Panic(m1, "index out of bounds")
        ELSE stack_push(m1, m.program[m.ip + 1])

\* mutant: Push wants a byte after its operand, so an operand that is the
\* last byte of the program is refused
push_off_by_one(m) ==
  IF m.ip + 1 >= Len(m.program)
    THEN Panic(m, "index out of bounds")
    ELSE LET value == m.program[m.ip + 1]
         IN  stack_push([m EXCEPT !.ip = @ + 1], value)

push(m) ==
  IF m.ip >= Len(m.program)
    THEN Panic(m, "index out of bounds")
    ELSE LET value == m.program[m.ip + 1]
         IN  stack_push([m EXCEPT !.ip = @ + 1], value)

add(m) ==
  LET rb == pop(m)
  IN  IF ~rb.some THEN Panic(rb.m, "Stack underflow")
      ELSE LET ra == pop(rb.m)
           IN  IF ~ra.some THEN Panic(ra.m, "Stack underflow")
               ELSE stack_push(ra.m, wrapping_add(ra.v, rb.v))

sub(m) ==
  LET rb == pop(m)
  IN  IF ~rb.some THEN Panic(rb.m, "Stack underflow")
      ELSE LET ra == pop(rb.m)
           IN  IF ~ra.some THEN Panic(ra.m, "Stack underflow")
               ELSE stack_push(ra.m, wrapping_sub(ra.v, rb.v))

mul(m) ==
  LET rb == pop(m)
  IN  IF ~rb.some THEN Panic(rb.m, "Stack underflow")
      ELSE LET ra == pop(rb.m)
           IN  IF ~ra.some THEN Panic(ra.m, "Stack underflow")
               ELSE stack_push(ra.m, wrapping_mul(ra.v, rb.v))

\* mutant: Print leaves the value it prints on the stack
print_peeks(m) ==
  LET r == last(m)
  IN  IF ~r.some THEN Panic(m, "Stack underflow")
      ELSE println(m, r.v)

print(m) ==
  LET r == pop(m)
  IN  IF ~r.some THEN Panic(r.m, "Stack underflow")
      ELSE println(r.m, r.v)

\* mutant: PrintTop removes the value it prints, as Print does
print_top_pops(m) ==
  LET r == pop(m)
  IN  IF ~r.some THEN Panic(r.m, "Stack underflow")
      ELSE println(r.m, r.v)

print_top(m) ==
  LET r == last(m)
  IN  IF ~r.some THEN Panic(m, "Stack underflow")
      ELSE println(m, r.v)

\* mutant: a trace print left in Dup
dup_prints(m) ==
  LET r == last(m)
  IN  IF ~r.some THEN Panic(m, "Stack underflow")
      ELSE println(stack_push(m, r.v), r.v)

dup(m) ==
  LET r == last(m)
  IN  IF ~r.some THEN Panic(m, "Stack underflow")
      ELSE stack_push(m, r.v)

\* mutant: the two values are pushed back in the order they had
swap_same_order(m) ==
  LET rb == pop(m)
  IN  IF ~rb.some THEN Panic(rb.m, "Stack underflow")
      ELSE LET ra == pop(rb.m)
           IN  IF ~ra.some THEN Panic(ra.m, "Stack underflow")
               ELSE stack_push(stack_push(ra.m, ra.v), rb.v)

swap(m) ==
  LET rb == pop(m)
  IN  IF ~rb.some THEN Panic(rb.m, "Stack underflow")
      ELSE LET ra == pop(rb.m)
           IN  IF ~ra.some THEN Panic(ra.m, "Stack underflow")
               ELSE stack_push(stack_push(ra.m, rb.v), ra.v)

\* mutant: the Option that pop returns is ignored
drop_unchecked(m) == pop(m).m

\* mutant: the top is looked at and not removed
drop_peek(m) ==
  LET r == last(m)
  IN  IF ~r.some THEN Panic(m, "Stack underflow")
      ELSE m

drop(m) ==
  LET r == pop(m)
  IN  IF ~r.some THEN Panic(r.m, "Stack underflow")
      ELSE r.m

\* mutant: Drop is dispatched on the VM as it was before ip was advanced
run_instruction_drop_stays(m) ==
  LET opcode == m.program[m.ip + 1]
      m1 == [m EXCEPT !.ip = @ + 1]
  IN  CASE opcode = 1 -> push(m1)
        [] opcode = 2 -> add(m1)
        [] opcode = 3 -> sub(m1)
        [] opcode = 4 -> mul(m1)
        [] opcode = 5 -> print(m1)
        [] opcode = 6 -> print_top(m1)
        [] opcode = 7 -> dup(m1)
        [] opcode = 8 -> swap(m1)
        [] opcode = 9 -> drop(m)
        [] OTHER -> Panic(m1, "Unknown opcode")

\* mutant: the byte 0x00 is executed as an instruction that does nothing
run_instruction_nop(m) ==
  LET opcode == m.program[m.ip + 1]
      m1 == [m EXCEPT !.ip = @ + 1]
  IN  CASE opcode = 0 -> m1
        [] opcode = 1 -> push(m1)
        [] opcode = 2 -> add(m1)
        [] opcode = 3 -> sub(m1)
        [] opcode = 4 -> mul(m1)
        [] opcode = 5 -> print(m1)
        [] opcode = 6 -> print_top(m1)
        [] opcode = 7 -> dup(m1)
        [] opcode = 8 -> swap(m1)
        [] opcode = 9 -> drop(m1)
        [] OTHER -> Panic(m1, "Unknown opcode")

run_instruction(m) ==
  LET opcode == m.program[m.ip + 1]
      m1 == [m EXCEPT !.ip = @ + 1]
  IN  CASE opcode = 1 -> push(m1)
        [] opcode = 2 -> add(m1)
        [] opcode = 3 -> sub(m1)
        [] opcode = 4 -> mul(m1)
        [] opcode = 5 -> print(m1)
        [] opcode = 6 -> print_top(m1)
        [] opcode = 7 -> dup(m1)
        [] opcode = 8 -> swap(m1)
        [] opcode = 9 -> drop(m1)
        [] OTHER -> Panic(m1, "Unknown opcode")

\* the condition of run's while loop; a panic has unwound out of run
Running(m) == m.panic = "none" /\ m.ip < Len(m.program)
Halted(m) == m.panic = "none" /\ ~(m.ip < Len(m.program))
Faulted(m) == m.panic # "none"

(***************************************************************************)
(* Text: a string is a sequence of one-character strings                   *)
(***************************************************************************)
WhiteSpace == {" ", "\t", "\r", "\n"}

S_PUSH == <<"P", "U", "S", "H">>
S_ADD == <<"A", "D", "D">>
S_SUB == <<"S", "U", "B">>
S_MUL == <<"M", "U", "L">>
S_PRINT == <<"P", "R", "I", "N", "T">>
S_PRINT_TOP == <<"P", "R", "I", "N", "T", "_", "T", "O", "P">>
S_DUP == <<"D", "U", "P">>
S_SWAP == <<"S", "W", "A", "P">>
S_DROP == <<"D", "R", "O", "P">>

\* the k-th smallest element of a finite set of numbers
Nth(S, k) == CHOOSE x \in S : Cardinality({y \in S : y < x}) = k - 1

\* str::split_whitespace: the maximal runs of non-whitespace characters
split_whitespace(line) ==
  LET starts == {i \in 1..Len(line) :
                   line[i] \notin WhiteSpace /\ (i = 1 \/ line[i - 1] \in WhiteSpace)}
      EndOf(i) == CHOOSE j \in i..Len(line) :
                    /\ \A k \in i..j : line[k] \notin WhiteSpace
                    /\ (j = Len(line) \/ line[j + 1] \in WhiteSpace)
  IN  [k \in 1..Cardinality(starts) |->
         SubSeq(line, Nth(starts, k), EndOf(Nth(starts, k)))]

\* str::lines: split at "\n", a "\r" before it belongs to the line ending,
\* and a final line ending opens no further line
StripCr(l) == IF l # <<>> /\ l[Len(l)] = "\r" THEN Front(l) ELSE l

str_lines(source) ==
  LET nls == {i \in 1..Len(source) : source[i] = "\n"}
      n == Cardinality(nls)
      open == Len(source) > 0 /\ source[Len(source)] # "\n"
      First(k) == IF k = 1 THEN 1 ELSE Nth(nls, k - 1) + 1
  IN  [k \in 1..(n + IF open THEN 1 ELSE 0) |->
         IF k <= n
           THEN StripCr(SubSeq(source, First(k), Nth(nls, k) - 1))
           ELSE SubSeq(source, First(k), Len(source))]

\* char::to_digit(10)
IsDigit(c) == c \in {"0", "1", "2", "3", "4", "5", "6", "7", "8", "9"}
DigitVal(c) ==
  CASE c = "0" -> 0 [] c = "1" -> 1 [] c = "2" -> 2 [] c = "3" -> 3
    [] c = "4" -> 4 [] c = "5" -> 5 [] c = "6" -> 6 [] c = "7" -> 7
    [] c = "8" -> 8 [] c = "9" -> 9

\* the digit loop of u8::from_str: checked_mul(10) then checked_add(digit)
RECURSIVE ParseDigits(_, _)
ParseDigits(s, acc) ==
  IF s = <<>> THEN [ok |-> TRUE, v |-> acc]
  ELSE IF ~IsDigit(Head(s)) THEN [ok |-> FALSE, v |-> 0]
  ELSE IF acc * 10 > U8Max THEN [ok |-> FALSE, v |-> 0]
  ELSE IF acc * 10 + DigitVal(Head(s)) > U8Max THEN [ok |-> FALSE, v |-> 0]
  ELSE ParseDigits(Tail(s), acc * 10 + DigitVal(Head(s)))

\* str::parse::<u8>: empty, a lone sign, "-", a non-digit and a value above
\* 255 are errors; one leading "+" is accepted
parse_u8(s) ==
  IF s = <<>> THEN [ok |-> FALSE, v |-> 0]
  ELSE IF Len(s) = 1 /\ s[1] \in {"+", "-"} THEN [ok |-> FALSE, v |-> 0]
  ELSE IF s[1] = "+" THEN ParseDigits(Tail(s), 0)
  ELSE ParseDigits(s, 0)

(***************************************************************************)
(* Op                                                                      *)
(***************************************************************************)
OpTags == {"Push", "Add", "Sub", "Mul", "Print", "PrintTop", "Dup", "Swap", "Drop"}

MkOp(tag, value) == [tag |-> tag, value |-> value]

\* mutant: the encoder numbers Swap and Drop the other way round
opcode_exchanged(op) ==
  CASE op.tag = "Push" -> 1
    [] op.tag = "Add" -> 2
    [] op.tag = "Sub" -> 3
    [] op.tag = "Mul" -> 4
    [] op.tag = "Print" -> 5
    [] op.tag = "PrintTop" -> 6
    [] op.tag = "Dup" -> 7
    [] op.tag = "Swap" -> 9
    [] op.tag = "Drop" -> 8

opcode(op) ==
  CASE op.tag = "Push" -> 1
    [] op.tag = "Add" -> 2
    [] op.tag = "Sub" -> 3
    [] op.tag = "Mul" -> 4
    [] op.tag = "Print" -> 5
    [] op.tag = "PrintTop" -> 6
    [] op.tag = "Dup" -> 7
    [] op.tag = "Swap" -> 8
    [] op.tag = "Drop" -> 9

\* mutant: the operand of Push is left out
to_bytecode_opcode_only(op) == <<opcode(op)>>

\* mutant: the operand of Push is emitted before its opcode
to_bytecode_operand_first(op) ==
  IF op.tag = "Push" THEN <<op.value, opcode(op)>> ELSE <<opcode(op)>>

to_bytecode(op) ==
  IF op.tag = "Push" THEN <<opcode(op), op.value>> ELSE <<opcode(op)>>

\* the result of from_parts: an Op, or the panic that replaced it
OkOp(op) == [panic |-> "none", op |-> op]
ErrOp(msg) == [panic |-> msg, op |-> MkOp("Drop", 0)]

\* mutant: only the first token of a line without operand is looked at
from_parts_first_token(parts) ==
  IF Len(parts) = 2 /\ parts[1] = S_PUSH
    THEN LET r == parse_u8(parts[2])
         IN  IF r.ok THEN OkOp(MkOp("Push", r.v))
             ELSE ErrOp("Expected an 8-bit number")
  ELSE IF parts[1] = S_ADD THEN OkOp(MkOp("Add", 0))
  ELSE IF parts[1] = S_SUB THEN OkOp(MkOp("Sub", 0))
  ELSE IF parts[1] = S_MUL THEN OkOp(MkOp("Mul", 0))
  ELSE IF parts[1] = S_PRINT THEN OkOp(MkOp("Print", 0))
  ELSE IF parts[1] = S_PRINT_TOP THEN OkOp(MkOp("PrintTop", 0))
  ELSE IF parts[1] = S_DUP THEN OkOp(MkOp("Dup", 0))
  ELSE IF parts[1] = S_SWAP THEN OkOp(MkOp("Swap", 0))
  ELSE IF parts[1] = S_DROP THEN OkOp(MkOp("Drop", 0))
  ELSE ErrOp("Unknown or malformed instruction")

from_parts(parts) ==
  IF Len(parts) = 2 /\ parts[1] = S_PUSH
    THEN LET r == parse_u8(parts[2])
         IN  IF r.ok THEN OkOp(MkOp("Push", r.v))
             ELSE ErrOp("Expected an 8-bit number")
  ELSE IF parts = <<S_ADD>> THEN OkOp(MkOp("Add", 0))
  ELSE IF parts = <<S_SUB>> THEN OkOp(MkOp("Sub", 0))
  ELSE IF parts = <<S_MUL>> THEN OkOp(MkOp("Mul", 0))
  ELSE IF parts = <<S_PRINT>> THEN OkOp(MkOp("Print", 0))
  ELSE IF parts = <<S_PRINT_TOP>> THEN OkOp(MkOp("PrintTop", 0))
  ELSE IF parts = <<S_DUP>> THEN OkOp(MkOp("Dup", 0))
  ELSE IF parts = <<S_SWAP>> THEN OkOp(MkOp("Swap", 0))
  ELSE IF parts = <<S_DROP>> THEN OkOp(MkOp("Drop", 0))
  ELSE ErrOp("Unknown or malformed instruction")

(***************************************************************************)
(* assemble                                                                *)
(***************************************************************************)
\* the buffer after the line, Break for a blank line, or the panic
\* mutant: no test for an empty list of parts, so a blank line reaches
\* from_parts, whose parts[0] is out of bounds
assemble_line_no_skip(buf, line) ==
  LET parts == split_whitespace(line)
  IN  IF parts = <<>>
        THEN [bytecode |-> buf, flow |-> "Panic", panic |-> "index out of bounds"]
        ELSE LET r == from_parts(parts)
             IN  IF r.panic # "none"
                   THEN [bytecode |-> buf, flow |-> "Panic", panic |-> r.panic]
                   ELSE [bytecode |-> buf \o to_bytecode(r.op),
                         flow |-> "Continue", panic |-> "none"]

assemble_line(buf, line) ==
  LET parts == split_whitespace(line)
  IN  IF parts = <<>>
        THEN [bytecode |-> buf, flow |-> "Break", panic |-> "none"]
        ELSE LET r == from_parts(parts)
             IN  IF r.panic # "none"
                   THEN [bytecode |-> buf, flow |-> "Panic", panic |-> r.panic]
                   ELSE [bytecode |-> buf \o to_bytecode(r.op),
                         flow |-> "Continue", panic |-> "none"]

(***************************************************************************)
(* Inputs: source texts built from sample lines, and byte programs         *)
(***************************************************************************)
SP == <<" ">>

\* a sample line: its text, and what the grammar of the spec says it is
Sample(text, kind, mnem, n) == [text |-> text, kind |-> kind, mnem |-> mnem, n |-> n]
Valid(text, mnem, n) == Sample(text, "valid", mnem, n)
Blank(text) == Sample(text, "blank", "", 0)
Malformed(text) == Sample(text, "malformed", "", 0)

L_PUSH_0 == Valid(S_PUSH \o SP \o <<"0">>, "PUSH", 0)
L_PUSH_255 == Valid(S_PUSH \o SP \o <<"2", "5", "5">>, "PUSH", 255)
L_PUSH_5 == Valid(S_PUSH \o SP \o <<"5">>, "PUSH", 5)
L_PUSH_10 == Valid(S_PUSH \o SP \o <<"1", "0">>, "PUSH", 10)
L_PUSH_250 == Valid(S_PUSH \o SP \o <<"2", "5", "0">>, "PUSH", 250)
L_PUSH_2 == Valid(S_PUSH \o SP \o <<"2">>, "PUSH", 2)
L_PUSH_1 == Valid(S_PUSH \o SP \o <<"1">>, "PUSH", 1)
L_PUSH_7 == Valid(S_PUSH \o SP \o <<"7">>, "PUSH", 7)
L_PUSH_20 == Valid(S_PUSH \o SP \o <<"2", "0">>, "PUSH", 20)
L_PUSH_3_WS == Valid(<<" ", " ">> \o S_PUSH \o <<"\t", " ", "3", " ">>, "PUSH", 3)
L_PUSH_PLUS_7 == Valid(S_PUSH \o SP \o <<"+", "7">>, "PUSH", 7)
L_PUSH_007 == Valid(S_PUSH \o SP \o <<"0", "0", "7">>, "PUSH", 7)
L_ADD == Valid(S_ADD, "ADD", 0)
L_SUB == Valid(S_SUB, "SUB", 0)
L_MUL == Valid(S_MUL, "MUL", 0)
L_PRINT == Valid(S_PRINT, "PRINT", 0)
L_PRINT_TOP == Valid(S_PRINT_TOP, "PRINT_TOP", 0)
L_DUP == Valid(S_DUP, "DUP", 0)
L_SWAP == Valid(S_SWAP, "SWAP", 0)
L_DROP == Valid(S_DROP, "DROP", 0)
L_DROP_CR == Valid(S_DROP \o <<"\r">>, "DROP", 0)
L_EMPTY == Blank(<<>>)
L_SPACES == Blank(<<" ", "\t">>)
L_PUSH_ONLY == Malformed(S_PUSH)
L_ADD_1 == Malformed(S_ADD \o SP \o <<"1">>)
L_PUSH_256 == Malformed(S_PUSH \o SP \o <<"2", "5", "6">>)
L_PUSH_NEG == Malformed(S_PUSH \o SP \o <<"-", "1">>)
L_PUSH_5_5 == Malformed(S_PUSH \o SP \o <<"5">> \o SP \o <<"5">>)
L_FOO == Malformed(<<"F", "O", "O">>)
L_LOWER == Malformed(<<"a", "d", "d">>)

LineSamples ==
  {L_PUSH_0, L_PUSH_255, L_PUSH_5, L_PUSH_250, L_PUSH_2, L_PUSH_3_WS, L_PUSH_PLUS_7, L_PUSH_007,
   L_ADD, L_PRINT, L_PRINT_TOP, L_SWAP, L_DROP_CR,
   L_EMPTY, L_SPACES,
   L_PUSH_ONLY, L_ADD_1, L_PUSH_256, L_PUSH_NEG, L_PUSH_5_5, L_FOO, L_LOWER}

\* the scenarios of the spec, and the source text of main
Scenarios ==
  {<<L_PUSH_5, L_PRINT_TOP, L_PUSH_10, L_ADD, L_PRINT>>,
   <<L_PUSH_250, L_PUSH_10, L_ADD, L_PRINT>>,
   <<L_EMPTY, L_PUSH_5, L_PRINT_TOP, L_PUSH_10, L_PRINT_TOP, L_ADD, L_PRINT_TOP,
     L_PUSH_1, L_SUB, L_PRINT_TOP, L_DUP, L_ADD, L_PRINT_TOP, L_PUSH_7,
     L_PRINT_TOP, L_SWAP, L_PRINT_TOP, L_DROP, L_PUSH_20, L_PUSH_20, L_MUL,
     L_PRINT>>}

SeqsUpTo(S, n) == UNION {[1..k -> S] : k \in 0..n}

Sources(n) == SeqsUpTo(LineSamples, n) \cup Scenarios

\* the text of the source: the lines, a "\n" between two of them, and
\* a final "\n" or none
RECURSIVE JoinLines(_)
JoinLines(ps) ==
  IF ps = <<>> THEN <<>>
  ELSE IF Len(ps) = 1 THEN ps[1].text
  ELSE ps[1].text \o <<"\n">> \o JoinLines(Tail(ps))

SourceText(ps, nl) == JoinLines(ps) \o (IF nl THEN <<"\n">> ELSE <<>>)

\* the program that pushes the values of s, bottom first
RECURSIVE Pushes(_)
Pushes(s) == IF s = <<>> THEN <<>> ELSE <<1, Head(s)>> \o Pushes(Tail(s))

StackVals == {3, 5, 10, 250}
TailBytes == 0..10
BSamples == {0, 1, 5, 6, 10, 128, 250, 255}
BelowVals == {3, 250}

(***************************************************************************)
(* main: assemble the source, create the VM, run it                        *)
(***************************************************************************)
NoVM == new(<<>>)

Init ==
  \E ps \in Sources(MaxLines), nl \in BOOLEAN :
    /\ pc = "assemble"
    /\ picked = ps
    /\ lines = str_lines(SourceText(ps, nl))
    /\ bytecode = <<>>
    /\ vm = NoVM
    /\ vm2 = NoVM
    /\ hist = <<>>

\* one turn of assemble's loop.  A panic unwinds out of assemble: the
\* buffer is never returned and no VM is created.
AssembleLine ==
  /\ pc = "assemble"
  /\ lines # <<>>
  /\ LET r == assemble_line(bytecode, Head(lines))
     IN  /\ pc' = IF r.flow = "Panic" THEN "asm_panic" ELSE "assemble"
         /\ bytecode' = r.bytecode
  /\ lines' = Tail(lines)
  /\ UNCHANGED <<picked, vm, vm2, hist>>

\* assemble returns the buffer; main hands it to VM::new and calls run
AssembleReturn ==
  /\ pc = "assemble"
  /\ lines = <<>>
  /\ pc' = "run"
  /\ vm' = new(bytecode)
  /\ UNCHANGED <<picked, lines, bytecode, vm2, hist>>

\* one turn of run's loop
RunInstruction ==
  /\ pc = "run"
  /\ Running(vm)
  /\ vm' = run_instruction(vm)
  /\ hist' = Append(hist, vm)
  /\ UNCHANGED <<pc, picked, lines, bytecode, vm2>>

Next == AssembleLine \/ AssembleReturn \/ RunInstruction

Spec == Init /\ [][Next]_vars

(***************************************************************************)
(* A VM created on a byte program written by hand                          *)
(***************************************************************************)
InitOn(program) ==
  /\ pc = "run"
  /\ picked = <<>>
  /\ lines = <<>>
  /\ bytecode = program
  /\ vm = new(program)
  /\ vm2 = NoVM
  /\ hist = <<>>

\* byte programs written by hand: pushes of up to MaxDepth values, then up
\* to MaxTail bytes of any kind
InitVM ==
  \E s \in SeqsUpTo(StackVals, MaxDepth), t \in SeqsUpTo(TailBytes, MaxTail) :
    InitOn(Pushes(s) \o t)

NextVM == RunInstruction

SpecVM == InitVM /\ [][NextVM]_vars

\* push a; push b; ADD; push b; SUB on a stack of up to MaxBelow values
InitAddSub ==
  \E s \in SeqsUpTo(BelowVals, MaxBelow), a \in Byte, b \in BSamples :
    InitOn(Pushes(s) \o <<1, a, 1, b, 2, 1, b, 3>>)

SpecAddSub == InitAddSub /\ [][NextVM]_vars

(***************************************************************************)
(* run on any byte program of up to MaxProg bytes.  run is a loop without  *)
(* a suspension point: while its condition holds, the next instruction is  *)
(* executed, hence the weak fairness of RunInstruction.                    *)
(***************************************************************************)
InitRun == \E program \in SeqsUpTo(TailBytes, MaxProg) : InitOn(program)

SpecRun == InitRun /\ [][NextVM]_vars /\ WF_vars(RunInstruction)

\* any one byte of 0..255 as the opcode, on a stack of up to MaxBelow values
InitAnyByte ==
  \E s \in SeqsUpTo(BelowVals, MaxBelow), byte \in Byte :
    InitOn(Pushes(s) \o <<byte>>)

SpecAnyByte == InitAnyByte /\ [][NextVM]_vars

(***************************************************************************)
(* assemble and run on three lines: PUSH 3, PUSH 5 and any one valid line  *)
(***************************************************************************)
DigitChar(d) == <<"0", "1", "2", "3", "4", "5", "6", "7", "8", "9">>[d + 1]

RECURSIVE Decimal(_)
Decimal(v) ==
  IF v < 10 THEN <<DigitChar(v)>>
  ELSE Decimal(v \div 10) \o <<DigitChar(v % 10)>>

PushLine(v) == Valid(S_PUSH \o SP \o Decimal(v), "PUSH", v)

OtherLines == {L_ADD, L_SUB, L_MUL, L_PRINT, L_PRINT_TOP, L_DUP, L_SWAP, L_DROP}

InitRoundTrip ==
  \E x \in {PushLine(v) : v \in Byte} \cup OtherLines :
    /\ pc = "assemble"
    /\ picked = <<PushLine(3), PushLine(5), x>>
    /\ lines = str_lines(SourceText(picked, FALSE))
    /\ bytecode = <<>>
    /\ vm = NoVM
    /\ vm2 = NoVM
    /\ hist = <<>>

SpecRoundTrip == InitRoundTrip /\ [][Next]_vars

(***************************************************************************)
(* Two VM instances, each created on its own program, their instructions   *)
(* executed in any order                                                   *)
(***************************************************************************)
TwoPrograms ==
  {<<>>, <<1>>, <<2>>, <<1, 3, 0>>, <<1, 3, 7, 9, 5>>,
   <<1, 250, 1, 10, 2, 5>>, <<1, 5, 6, 1, 10, 2, 5>>}

InitTwo ==
  \E p1 \in TwoPrograms, p2 \in TwoPrograms :
    /\ pc = "run"
    /\ picked = <<>>
    /\ lines = <<>>
    /\ bytecode = p1
    /\ vm = new(p1)
    /\ vm2 = new(p2)
    /\ hist = <<>>

\* mutant: the two instances work on one stack
RunInstruction2_shared ==
  /\ pc = "run"
  /\ Running(vm2)
  /\ LET r == run_instruction([vm2 EXCEPT !.stack = vm.stack])
     IN  /\ vm2' = r
         /\ vm' = [vm EXCEPT !.stack = r.stack]
  /\ UNCHANGED <<pc, picked, lines, bytecode, hist>>

\* one turn of the loop of run on the second instance
RunInstruction2 ==
  /\ pc = "run"
  /\ Running(vm2)
  /\ vm2' = run_instruction(vm2)
  /\ UNCHANGED <<pc, picked, lines, bytecode, vm, hist>>

NextTwo == RunInstruction \/ RunInstruction2

SpecTwo == InitTwo /\ [][NextTwo]_vars

\* run on an instance that nothing else touches
RECURSIVE RunAlone(_)
RunAlone(m) == IF Running(m) THEN RunAlone(run_instruction(m)) ELSE m

(***************************************************************************)
(* Reading the history                                                     *)
(***************************************************************************)
Steps == 1..Len(hist)
Before(i) == hist[i]
After(i) == IF i < Len(hist) THEN hist[i + 1] ELSE vm
Fetched(i) == hist[i].program[hist[i].ip + 1]
Depth(m) == Len(m.stack)
Top(m) == m.stack[Len(m.stack)]
Second(m) == m.stack[Len(m.stack) - 1]
Below(m, k) == SubSeq(m.stack, 1, Len(m.stack) - k)

(***************************************************************************)
(* Claims about single steps of the VM                                     *)
(***************************************************************************)
\* C1: a successful Add, Sub or Mul on a stack of depth >= 2 with a below b
\* on top replaces the two by (a + b) mod 256, (a - b) mod 256 or
\* (a * b) mod 256, leaves every element below them as it was, and makes the
\* stack one shorter; so 250 + 10 = 4 and 3 - 5 = 254.
C1_Arithmetic ==
  \A i \in Steps :
    LET m == Before(i)
        r == After(i)
        opc == Fetched(i)
    IN  (opc \in {2, 3, 4} /\ Depth(m) >= 2 /\ r.panic = "none") =>
          LET a == Second(m)
              b == Top(m)
              want == CASE opc = 2 -> (a + b) % 256
                        [] opc = 3 -> (a - b) % 256
                        [] opc = 4 -> (a * b) % 256
          IN  /\ r.stack = Append(Below(m, 2), want)
              /\ Depth(r) = Depth(m) - 1
              /\ (opc = 2 /\ a = 250 /\ b = 10) => Top(r) = 4
              /\ (opc = 3 /\ a = 3 /\ b = 5) => Top(r) = 254

\* C1 witness: 250 + 10 has been executed with an element below, and left 4
C1_Witness ==
  /\ Len(hist) > 0
  /\ Fetched(Len(hist)) = 2
  /\ Before(Len(hist)).stack = <<5, 250, 10>>
  /\ vm.stack = <<5, 4>>

\* C2: in the Faulted state the stack is the stack the failing instruction
\* found when it was fetched.
C2_FaultKeepsStack ==
  (pc = "run" /\ Faulted(vm)) => vm.stack = Before(Len(hist)).stack

\* C3: a step panics with "Stack underflow" exactly when the opcode is
\* Add, Sub, Mul or Swap on depth < 2, or Print, PrintTop, Dup or Drop on
\* depth < 1; with enough depth these opcodes do not panic; a step that
\* panics prints nothing.
C3_Underflow ==
  \A i \in Steps :
    LET m == Before(i)
        r == After(i)
        opc == Fetched(i)
        short == \/ opc \in {2, 3, 4, 8} /\ Depth(m) < 2
                 \/ opc \in {5, 6, 7, 9} /\ Depth(m) < 1
    IN  /\ (r.panic = "Stack underflow") <=> short
        /\ (opc \in 2..9 /\ ~short) => r.panic = "none"
        /\ r.panic # "none" => r.stdout = m.stdout

\* C3 witness: the program ADD alone has panicked with nothing printed
C3_Witness ==
  /\ vm.program = <<2>>
  /\ vm.panic = "Stack underflow"
  /\ vm.stdout = <<>>
  /\ Len(hist) = 1

\* C9: DUP on depth >= 1 followed at once by DROP leaves the stack as it
\* was before the DUP, in depth and contents, and prints nothing.
C9_DupDrop ==
  \A i \in Steps :
    (/\ i + 1 \in Steps
     /\ Fetched(i) = 7
     /\ Fetched(i + 1) = 9
     /\ Depth(Before(i)) >= 1) =>
       /\ After(i + 1).panic = "none"
       /\ After(i + 1).stack = Before(i).stack
       /\ After(i + 1).stdout = Before(i).stdout

\* C9 witness: DUP then DROP have run on a stack of depth 2
C9_Witness ==
  /\ Len(hist) >= 2
  /\ Fetched(Len(hist) - 1) = 7
  /\ Fetched(Len(hist)) = 9
  /\ Before(Len(hist) - 1).stack = <<250, 3>>
  /\ vm.stack = <<250, 3>>

\* C10: SWAP on depth >= 2 with x below y on top gives a stack of the same
\* depth with y below x on top, and everything beneath as it was.
C10_Swap ==
  \A i \in Steps :
    LET m == Before(i)
        r == After(i)
    IN  (Fetched(i) = 8 /\ Depth(m) >= 2) =>
          /\ r.panic = "none"
          /\ Depth(r) = Depth(m)
          /\ Top(r) = Second(m)
          /\ Second(r) = Top(m)
          /\ Below(r, 2) = Below(m, 2)

\* C10 witness: SWAP has exchanged two different values above a third
C10_Witness ==
  /\ Len(hist) > 0
  /\ Fetched(Len(hist)) = 8
  /\ Before(Len(hist)).stack = <<10, 3, 5>>
  /\ vm.stack = <<10, 5, 3>>

(***************************************************************************)
(* Claims about assemble, and about assemble followed by run               *)
(***************************************************************************)
\* the opcode table of the spec (section 4.1)
SpecOpcode(mnem) ==
  CASE mnem = "PUSH" -> 1
    [] mnem = "ADD" -> 2
    [] mnem = "SUB" -> 3
    [] mnem = "MUL" -> 4
    [] mnem = "PRINT" -> 5
    [] mnem = "PRINT_TOP" -> 6
    [] mnem = "DUP" -> 7
    [] mnem = "SWAP" -> 8
    [] mnem = "DROP" -> 9

\* what the lines ps must assemble to: nothing for a blank line, the opcode
\* and the operand for PUSH n, the opcode alone for the rest
RECURSIVE ExpectedBytes(_)
ExpectedBytes(ps) ==
  IF ps = <<>> THEN <<>>
  ELSE (IF Head(ps).kind = "blank" THEN <<>>
        ELSE IF Head(ps).mnem = "PUSH" THEN <<1, Head(ps).n>>
        ELSE <<SpecOpcode(Head(ps).mnem)>>) \o ExpectedBytes(Tail(ps))

HasMalformed(ps) == \E i \in 1..Len(ps) : ps[i].kind = "malformed"
FirstMalformed(ps) ==
  CHOOSE i \in 1..Len(ps) :
    ps[i].kind = "malformed" /\ \A j \in 1..(i - 1) : ps[j].kind # "malformed"

C4_Source == <<L_PUSH_5, L_PRINT_TOP, L_PUSH_10, L_ADD, L_PRINT>>

\* C4: PUSH 5, PRINT_TOP, PUSH 10, ADD, PRINT assembles to
\* [0x01,0x05,0x06,0x01,0x0A,0x02,0x05]; a fresh VM on it does not fault and
\* halts having printed 5 then 15, with an empty stack.
C4_Scenario ==
  picked = C4_Source =>
    /\ pc # "asm_panic"
    /\ pc = "run" =>
         /\ vm.program = <<1, 5, 6, 1, 10, 2, 5>>
         /\ ~Faulted(vm)
         /\ Halted(vm) => (vm.stdout = <<5, 15>> /\ vm.stack = <<>>)

\* C4 witness: the scenario has run to Halted
C4_Witness ==
  /\ picked = C4_Source
  /\ pc = "run"
  /\ Halted(vm)
  /\ Len(hist) = 5
  /\ vm.stdout = <<5, 15>>

\* C5: when every line is blank or valid, assemble returns the bytes of the
\* non-blank lines in order: [0x01, n] for PUSH n, the one opcode byte for
\* every other instruction, nothing for a blank line.
C5_Assemble ==
  ~HasMalformed(picked) =>
    /\ pc # "asm_panic"
    /\ pc = "run" => vm.program = ExpectedBytes(picked)

\* C5 witness: the source of main, with its blank first line, 6 PUSH lines
\* and 15 other instructions, has been assembled
C5_Witness ==
  /\ pc = "run"
  /\ hist = <<>>
  /\ Len(picked) = 22
  /\ picked[1].kind = "blank"
  /\ Len(vm.program) = 27

\* C6: when some line is malformed, assemble panics at the first such line
\* (the valid lines before it are all it has encoded) and returns nothing:
\* no VM is ever created on a part of the bytecode.
C6_AllOrNothing ==
  HasMalformed(picked) =>
    /\ pc # "run"
    /\ vm = NoVM
    /\ pc = "asm_panic" =>
         bytecode = ExpectedBytes(SubSeq(picked, 1, FirstMalformed(picked) - 1))
    /\ lines = <<>> => pc = "asm_panic"

\* C6 witness: assemble has panicked on ADD 1 after encoding PUSH 5
C6_Witness ==
  /\ pc = "asm_panic"
  /\ picked = <<L_PUSH_5, L_ADD_1>>
  /\ bytecode = <<1, 5>>

\* the effect of an instruction on a stack deep enough for it (section 4.3
\* of the spec): the stack after it, what it prints, how many bytes it takes
SpecEffect(mnem, n, st) ==
  LET a == st[Len(st) - 1]
      b == st[Len(st)]
      rest2 == SubSeq(st, 1, Len(st) - 2)
      rest1 == SubSeq(st, 1, Len(st) - 1)
  IN  CASE mnem = "PUSH" -> [stack |-> Append(st, n), out |-> <<>>, width |-> 2]
        [] mnem = "ADD" -> [stack |-> Append(rest2, (a + b) % 256), out |-> <<>>, width |-> 1]
        [] mnem = "SUB" -> [stack |-> Append(rest2, (a - b) % 256), out |-> <<>>, width |-> 1]
        [] mnem = "MUL" -> [stack |-> Append(rest2, (a * b) % 256), out |-> <<>>, width |-> 1]
        [] mnem = "PRINT" -> [stack |-> rest1, out |-> <<b>>, width |-> 1]
        [] mnem = "PRINT_TOP" -> [stack |-> st, out |-> <<b>>, width |-> 1]
        [] mnem = "DUP" -> [stack |-> Append(st, b), out |-> <<>>, width |-> 1]
        [] mnem = "SWAP" -> [stack |-> rest2 \o <<b, a>>, out |-> <<>>, width |-> 1]
        [] mnem = "DROP" -> [stack |-> rest1, out |-> <<>>, width |-> 1]

\* C7: the nine opcodes are pairwise distinct and in 0x01..0x09, and the VM
\* executes, for the encoding of every operation (Push(v) for every v in
\* 0..255 included), that same operation, Push with the operand v.
C7_RoundTrip ==
  /\ \A t \in OpTags : opcode(MkOp(t, 0)) \in 1..9
  /\ \A t1, t2 \in OpTags : t1 # t2 => opcode(MkOp(t1, 0)) # opcode(MkOp(t2, 0))
  /\ (pc = "run" /\ Len(hist) >= 3) =>
       LET m == Before(3)
           r == After(3)
           eff == SpecEffect(picked[3].mnem, picked[3].n, m.stack)
       IN  /\ m.stack = <<3, 5>>
           /\ Fetched(3) = SpecOpcode(picked[3].mnem)
           /\ r.panic = "none"
           /\ r.stack = eff.stack
           /\ r.stdout = m.stdout \o eff.out
           /\ r.ip = m.ip + eff.width

\* C7 witness: PUSH 255 has been parsed, encoded and executed
C7_Witness ==
  /\ pc = "run"
  /\ Len(hist) = 3
  /\ picked[3].mnem = "PUSH"
  /\ picked[3].n = 255
  /\ vm.stack = <<3, 5, 255>>

\* C8: push a; push b; ADD; push b; SUB on any stack S does not fault and
\* ends with S followed by a, also when a + b is above 255.
C8_AddSub ==
  LET n == Len(vm.program)
      a == vm.program[n - 6]
      k == Len(hist)
  IN  /\ ~Faulted(vm)
      /\ Halted(vm) =>
           /\ Top(vm) = a
           /\ Depth(vm) = (n - 8) \div 2 + 1
           /\ vm.stack = Before(k - 3).stack
           /\ Fetched(k - 3) = 1 /\ Fetched(k - 2) = 2 /\ Fetched(k) = 3

\* C8 witness: the five instructions have run with a + b above 255 on a
\* stack that was not empty
C8_Witness ==
  /\ Halted(vm)
  /\ vm.program = <<1, 3, 1, 200, 1, 250, 2, 1, 250, 3>>
  /\ vm.stack = <<3, 200>>

(***************************************************************************)
(* Claims about the output, the instruction pointer and the faults         *)
(***************************************************************************)
\* the values on top of the stack at the Print and PrintTop steps that did
\* not panic, among the first k steps, in the order of execution
RECURSIVE Observed(_)
Observed(k) ==
  IF k = 0 THEN <<>>
  ELSE IF Fetched(k) \in {5, 6} /\ After(k).panic = "none"
         THEN Append(Observed(k - 1), Top(Before(k)))
         ELSE Observed(k - 1)

\* C11: the output is append-only: a Print or PrintTop that succeeds appends
\* the one value on top of the stack, any other step (a panicking one
\* included) appends nothing, what was printed stays as it is, and so the
\* output is the sequence of the observed values in execution order.
C11_AppendOnly ==
  /\ \A i \in Steps :
       LET m == Before(i)
           r == After(i)
       IN  IF Fetched(i) \in {5, 6} /\ r.panic = "none"
             THEN r.stdout = Append(m.stdout, Top(m))
             ELSE r.stdout = m.stdout
  /\ pc = "run" => vm.stdout = Observed(Len(hist))

\* C11 witness: after three pushes, which print nothing, Print and then
\* PrintTop have printed two different values in execution order
C11_Witness ==
  /\ Len(hist) = 5
  /\ vm.program = <<1, 3, 1, 5, 1, 10, 5, 6>>
  /\ vm.stdout = <<10, 5>>
  /\ vm.stack = <<3, 5>>

\* C12: run on any finite byte program ends, Halted or Faulted, and has then
\* executed at most as many instructions as the program has bytes.
C12_Terminates ==
  /\ [](Len(hist) <= Len(vm.program))
  /\ <>(Halted(vm) \/ Faulted(vm))

\* C12 witness: run has halted on a program of 4 bytes after 3 instructions
C12_Witness ==
  /\ Halted(vm)
  /\ vm.program = <<1, 5, 7, 2>>
  /\ Len(hist) = 3
  /\ vm.stack = <<10>>

\* C13: a step that fetches 0x00 or a byte of 0x0A..0xFF panics with
\* "Unknown opcode", the stack and the output as they were; a step that
\* fetches a byte of 0x01..0x09 never panics so.
C13_IllegalOpcode ==
  \A i \in Steps :
    LET m == Before(i)
        r == After(i)
        opc == Fetched(i)
    IN  IF opc = 0 \/ opc \in 10..255
          THEN /\ r.panic = "Unknown opcode"
               /\ r.stack = m.stack
               /\ r.stdout = m.stdout
          ELSE /\ opc \in 1..9
               /\ r.panic # "Unknown opcode"

\* C13 witness: the byte 0xFF has been fetched on the stack <<3>>
C13_Witness ==
  /\ Len(hist) = 2
  /\ Fetched(2) = 255
  /\ vm.panic = "Unknown opcode"
  /\ vm.stack = <<3>>
  /\ vm.stdout = <<>>

\* C14: a Push at index i panics with "index out of bounds" exactly when
\* i + 1 >= len(program), the stack as it was; when index i + 1 is inside
\* the program, the last byte included, the step pushes program[i + 1] and
\* sets ip to i + 2.  No other instruction panics so.
C14_TruncatedPush ==
  \A k \in Steps :
    LET m == Before(k)
        r == After(k)
        i == m.ip
    IN  IF Fetched(k) = 1
          THEN IF i + 1 >= Len(m.program)
                 THEN /\ r.panic = "index out of bounds"
                      /\ r.stack = m.stack
                 ELSE /\ r.panic = "none"
                      /\ r.stack = Append(m.stack, m.program[i + 2])
                      /\ r.ip = i + 2
          ELSE r.panic # "index out of bounds"

\* C14 witness: the second Push of <<1, 5, 1>> has no operand byte
C14_Witness ==
  /\ vm.program = <<1, 5, 1>>
  /\ Len(hist) = 2
  /\ vm.panic = "index out of bounds"
  /\ vm.stack = <<5>>

\* the source has no character other than white space and line ends
BlankSource ==
  \A k \in 1..Len(picked) :
    \A j \in 1..Len(picked[k].text) : picked[k].text[j] \in WhiteSpace

\* C15: a source of blank and white-space-only lines, the empty string
\* included, assembles to the empty byte sequence without a panic, and the
\* VM created on it has halted with no instruction executed, an empty stack,
\* ip = 0 and no output.
C15_BlankSource ==
  BlankSource =>
    /\ pc # "asm_panic"
    /\ bytecode = <<>>
    /\ pc = "run" =>
         /\ vm.program = <<>>
         /\ Halted(vm)
         /\ hist = <<>>
         /\ vm.stack = <<>>
         /\ vm.ip = 0
         /\ vm.stdout = <<>>

\* C15 witness: a white-space-only line and an empty line have been
\* assembled and the VM created
C15_Witness ==
  /\ pc = "run"
  /\ picked = <<L_SPACES, L_EMPTY>>
  /\ lines = <<>>
  /\ Halted(vm)
  /\ hist = <<>>

C17_IpAdvance ==
  /\ (IF hist = <<>> THEN vm.ip ELSE Before(1).ip) = 0
  /\ \A i \in Steps :
       LET m == Before(i)
           r == After(i)
       IN  /\ r.ip >= m.ip
           /\ r.program = m.program
           /\ r.panic = "none" =>
                /\ Fetched(i) \in 1..9
                /\ r.ip = m.ip + (IF Fetched(i) = 1 THEN 2 ELSE 1)

\* C17 witness: Push 5 and Dup have run, ip went 0, 2, 3
C17_Witness ==
  /\ vm.program = <<1, 5, 7>>
  /\ Len(hist) = 2
  /\ Before(2).ip = 2
  /\ vm.ip = 3
  /\ vm.stack = <<5, 5>>

\* C18: a PrintTop that completes prints the top value and leaves the stack
\* as it was; a Print that completes prints the top value and removes that
\* one element, the elements below it as they were.
C18_PrintFrame ==
  \A i \in Steps :
    LET m == Before(i)
        r == After(i)
    IN  /\ Fetched(i) = 6 /\ r.panic = "none" =>
             /\ Depth(m) >= 1
             /\ r.stdout = Append(m.stdout, Top(m))
             /\ r.stack = m.stack
        /\ Fetched(i) = 5 /\ r.panic = "none" =>
             /\ Depth(m) >= 1
             /\ r.stdout = Append(m.stdout, Top(m))
             /\ r.stack = Below(m, 1)

\* C18 witness: on <<3, 5>> PrintTop printed 5 and kept it, then Print
\* printed 5 and removed it
C18_Witness ==
  /\ vm.program = <<1, 3, 1, 5, 6, 5>>
  /\ Len(hist) = 4
  /\ Before(4).stack = <<3, 5>>
  /\ vm.stack = <<3>>
  /\ vm.stdout = <<5, 5>>

\* the instructions of the source, in source order, and the index of the
\* first byte of the i-th of them in the assembled program
Instrs == SelectSeq(picked, LAMBDA p : p.kind # "blank")
InstrStart(i) == Len(ExpectedBytes(SubSeq(Instrs, 1, i - 1)))

\* C19: on bytecode that assemble produced from valid source, run can panic
\* with "Stack underflow" only; at the start of every step ip is on the
\* opcode byte of an assembled instruction, so no operand of Push (0x00,
\* 0x02, 0xFF, ...) is fetched as an opcode, and the instructions executed
\* are the instructions of the source, in source order, up to the halt or
\* the panic.
C19_AssembledRuns ==
  ~HasMalformed(picked) /\ pc = "run" =>
    /\ vm.panic \in {"none", "Stack underflow"}
    /\ Len(hist) <= Len(Instrs)
    /\ \A i \in Steps :
         /\ Before(i).ip = InstrStart(i)
         /\ Fetched(i) = SpecOpcode(Instrs[i].mnem)
         /\ Fetched(i) = 1 =>
              /\ After(i).panic = "none"
              /\ Top(After(i)) = Instrs[i].n
    /\ Running(vm) => vm.ip = InstrStart(Len(hist) + 1)
    /\ Halted(vm) => Len(hist) = Len(Instrs)

\* C19 witness: PUSH 255 then PRINT has run to its halt; the operand 0xFF
\* was pushed and printed, never fetched as an opcode
C19_Witness ==
  /\ pc = "run"
  /\ picked = <<L_PUSH_255, L_PRINT>>
  /\ Halted(vm)
  /\ Len(hist) = 2
  /\ vm.stdout = <<255>>

\* C20: in every state of a run on any byte program, 0 <= ip <=
\* len(program), also after a Push that found no operand; the VM has halted
\* exactly when ip = len(program) and nothing has panicked.
C20_IpInBounds ==
  /\ 0 <= vm.ip /\ vm.ip <= Len(vm.program)
  /\ \A i \in Steps : 0 <= Before(i).ip /\ Before(i).ip < Len(vm.program)
  /\ Halted(vm) <=> (vm.ip = Len(vm.program) /\ vm.panic = "none")

\* C20 witness: the Push that ends <<1, 5, 7, 1>> found no operand and left
\* ip at 4, the length of the program
C20_Witness ==
  /\ vm.program = <<1, 5, 7, 1>>
  /\ Len(hist) = 3
  /\ vm.panic = "index out of bounds"
  /\ vm.ip = 4
  /\ vm.stack = <<5, 5>>

====
